---- MODULE Spec2Model ----
(***************************************************************************)
(* Model of the companion bot (src/companion_bot.py) as served by          *)
(* src/app.py: one CompanionBot object, one turn per run_once_text call.   *)
(*                                                                         *)
(* Conventions.                                                            *)
(*  - A text is a sequence of one-character strings, so that lower(),      *)
(*    the substring test `w in text` and the regular expressions of        *)
(*    parse_duration_days are computed as Python computes them.            *)
(*  - Optional values (None or a value) are sequences of length 0 or 1:    *)
(*    <<>> is None, <<v>> is v.  Optional strings use the value None.      *)
(*  - An assistant reply is an atomic string; strip() is modelled by       *)
(*    the operator strip.                                                  *)
(*  - Polarity and subjectivity are scaled by 100 (0.1 is 10).             *)
(*  - Timestamps (datetime.now()) are not modelled.                        *)
(*  - print() output is recorded in the turn's observation `last_turn`.    *)
(*  - input() returns the operator's answer, drawn from a small set.       *)
(***************************************************************************)
EXTENDS Integers, Sequences, FiniteSets, TLC

\* ------------------------------------------------------------------------
\* Bounds of the model
\* ------------------------------------------------------------------------
\* Number of turns (run_once_text calls) explored in one session.
MaxTurns == 4
\* problem_phase_limit ranges over 1..MaxLimit.
MaxLimit == 3

\* ------------------------------------------------------------------------
\* Characters and strings
\* ------------------------------------------------------------------------
None == "<None>"

\* str.lower() on one character.
lower_char(c) ==
    CASE c = "A" -> "a" [] c = "B" -> "b" [] c = "C" -> "c" [] c = "D" -> "d"
      [] c = "E" -> "e" [] c = "F" -> "f" [] c = "G" -> "g" [] c = "H" -> "h"
      [] c = "I" -> "i" [] c = "J" -> "j" [] c = "K" -> "k" [] c = "L" -> "l"
      [] c = "M" -> "m" [] c = "N" -> "n" [] c = "O" -> "o" [] c = "P" -> "p"
      [] c = "Q" -> "q" [] c = "R" -> "r" [] c = "S" -> "s" [] c = "T" -> "t"
      [] c = "U" -> "u" [] c = "V" -> "v" [] c = "W" -> "w" [] c = "X" -> "x"
      [] c = "Y" -> "y" [] c = "Z" -> "z" [] OTHER -> c

\* str.lower()
lower(text) == [i \in 1..Len(text) |-> lower_char(text[i])]

\* text[i:i+len(w)] == w
StartsAt(text, i, w) ==
    /\ i >= 1
    /\ i + Len(w) - 1 <= Len(text)
    /\ \A k \in 1..Len(w) : text[i + k - 1] = w[k]

\* Python's `w in text` on strings: w is a substring of text.
Contains(w, text) == \E i \in 1..(Len(text) - Len(w) + 1) : StartsAt(text, i, w)

\* The regular-expression classes \s and \d.
IsSpace(c) == c \in {" ", "\t", "\n", "\r"}
IsDigit(c) == c \in {"0", "1", "2", "3", "4", "5", "6", "7", "8", "9"}

DigitValue(c) ==
    CASE c = "0" -> 0 [] c = "1" -> 1 [] c = "2" -> 2 [] c = "3" -> 3
      [] c = "4" -> 4 [] c = "5" -> 5 [] c = "6" -> 6 [] c = "7" -> 7
      [] c = "8" -> 8 [] c = "9" -> 9

\* ------------------------------------------------------------------------
\* The user texts and the answers to input() explored by the model
\* ------------------------------------------------------------------------
\* "I want to END it all"
TextCrisis ==
    <<"I"," ","w","a","n","t"," ","t","o"," ","E","N","D"," ","i","t"," ","a","l","l">>
\* "my girlfriend cheated on me"
TextRelationship ==
    <<"m","y"," ","g","i","r","l","f","r","i","e","n","d"," ","c","h","e","a","t","e","d"," ","o","n"," ","m","e">>
\* "boss fired me, hopeless and stressed"
TextJob ==
    <<"b","o","s","s"," ","f","i","r","e","d"," ","m","e",","," ","h","o","p","e","l","e","s","s"," ","a","n","d"," ","s","t","r","e","s","s","e","d">>
\* "Anxious for 2 weeks"
TextModerate ==
    <<"A","n","x","i","o","u","s"," ","f","o","r"," ","2"," ","w","e","e","k","s">>

\* The texts a turn may carry.
Texts == {TextCrisis, TextRelationship, TextJob, TextModerate}

\* "2 weeks"
AnswerTwoWeeks ==
    <<"2"," ","w","e","e","k","s">>
\* "for three months"
AnswerForThreeMonths ==
    <<"f","o","r"," ","t","h","r","e","e"," ","m","o","n","t","h","s">>

\* The answers the operator may give to the "how long" question.
DurationAnswers == {AnswerTwoWeeks, AnswerForThreeMonths}

\* Further answers, explored by the specification of the duration parser.
\* "for 2 weeks"
AnswerForTwoWeeks ==
    <<"f","o","r"," ","2"," ","w","e","e","k","s">>
\* "since last month"
AnswerSinceLastMonth ==
    <<"s","i","n","c","e"," ","l","a","s","t"," ","m","o","n","t","h">>
\* "Since last WEEK"
AnswerSinceLastWeek ==
    <<"S","i","n","c","e"," ","l","a","s","t"," ","W","E","E","K">>
\* "since yesterday"
AnswerSinceYesterday ==
    <<"s","i","n","c","e"," ","y","e","s","t","e","r","d","a","y">>
\* "I feel okay"
AnswerFeelOkay ==
    <<"I"," ","f","e","e","l"," ","o","k","a","y">>
\* "for two days, then for 3 weeks"
AnswerWordThenDigits ==
    <<"f","o","r"," ","t","w","o"," ","d","a","y","s",","," ","t","h","e","n"," ","f","o","r"," ","3"," ","w","e","e","k","s">>
\* "for 1 year or for 2 days"
AnswerTwoDigitForms ==
    <<"f","o","r"," ","1"," ","y","e","a","r"," ","o","r"," ","f","o","r"," ","2"," ","d","a","y","s">>
\* "for ten years since last month"
AnswerWordAndSince ==
    <<"f","o","r"," ","t","e","n"," ","y","e","a","r","s"," ","s","i","n","c","e"," ","l","a","s","t"," ","m","o","n","t","h">>

ParsedAnswers ==
    DurationAnswers \cup
    { AnswerForTwoWeeks, AnswerSinceLastMonth, AnswerSinceLastWeek,
      AnswerSinceYesterday, AnswerFeelOkay, AnswerWordThenDigits,
      AnswerTwoDigitForms, AnswerWordAndSince }

\* ------------------------------------------------------------------------
\* Detection maps and lexical utilities
\* ------------------------------------------------------------------------
\* self.risk_words: a dict, iterated in insertion order severe, high,
\* moderate, low.
risk_words ==
    << [level |-> "severe", words |-> <<
            <<"s","u","i","c","i","d","e">>,
            <<"k","i","l","l"," ","m","y","s","e","l","f">>,
            <<"e","n","d"," ","i","t"," ","a","l","l">>,
            <<"n","o"," ","p","o","i","n","t"," ","l","i","v","i","n","g">>,
            <<"b","e","t","t","e","r"," ","o","f","f"," ","d","e","a","d">> >>],
       [level |-> "high", words |-> <<
            <<"h","o","p","e","l","e","s","s">>,
            <<"w","o","r","t","h","l","e","s","s">>,
            <<"h","a","t","e"," ","m","y","s","e","l","f">>,
            <<"c","a","n","'","t"," ","g","o"," ","o","n">>,
            <<"e","v","e","r","y","t","h","i","n","g"," ","i","s"," ","w","r","o","n","g">> >>],
       [level |-> "moderate", words |-> <<
            <<"d","e","p","r","e","s","s","e","d">>,
            <<"a","n","x","i","o","u","s">>,
            <<"p","a","n","i","c">>,
            <<"s","c","a","r","e","d">>,
            <<"o","v","e","r","w","h","e","l","m","e","d">>,
            <<"s","t","r","e","s","s","e","d">> >>],
       [level |-> "low", words |-> <<
            <<"t","i","r","e","d">>,
            <<"w","o","r","r","i","e","d">>,
            <<"s","a","d">>,
            <<"d","o","w","n">>,
            <<"u","p","s","e","t">> >>] >>

\* any(w in text for w in words)
AnyIn(words, text) == \E k \in 1..Len(words) : Contains(words[k], text)

\* The loop of analyze_sentiment: the first level of risk_words, in
\* iteration order, one of whose words occurs in the lowercased text.
RECURSIVE FirstLevel(_, _)
FirstLevel(text_lower, k) ==
    IF k > Len(risk_words) THEN "low"
    ELSE IF AnyIn(risk_words[k].words, text_lower) THEN risk_words[k].level
    ELSE FirstLevel(text_lower, k + 1)

\* Mutation: the last matching level in iteration order wins.
RECURSIVE LastLevel(_, _)
LastLevel(text_lower, k) ==
    IF k = 0 THEN "low"
    ELSE IF AnyIn(risk_words[k].words, text_lower) THEN risk_words[k].level
    ELSE LastLevel(text_lower, k - 1)

current_risk_last_match(text) == LastLevel(lower(text), Len(risk_words))

\* Mutation: the text is not lowercased before the keywords are looked up.
current_risk_case_sensitive(text) == FirstLevel(text, 1)

current_risk(text) == FirstLevel(lower(text), 1)

\* order = {"low":0, "moderate":1, "high":2, "severe":3}
order(level) ==
    CASE level = "low" -> 0 [] level = "moderate" -> 1
      [] level = "high" -> 2 [] level = "severe" -> 3

RiskLevels == {"low", "moderate", "high", "severe"}

relationship_keywords ==
    <<
        <<"b","r","e","a","k","u","p">>,
        <<"b","r","o","k","e"," ","u","p">>,
        <<"c","h","e","a","t">>,
        <<"c","h","e","a","t","e","d">>,
        <<"g","i","r","l","f","r","i","e","n","d">>,
        <<"b","o","y","f","r","i","e","n","d">>,
        <<"p","a","r","t","n","e","r">>,
        <<"r","e","l","a","t","i","o","n","s","h","i","p">>,
        <<"c","h","e","a","t","i","n","g">> >>

job_keywords ==
    <<
        <<"f","i","r","e","d">>,
        <<"l","a","i","d"," ","o","f","f">>,
        <<"l","o","s","t"," ","m","y"," ","j","o","b">>,
        <<"l","o","s","t"," ","j","o","b">>,
        <<"b","e","t","r","a","y">>,
        <<"b","o","s","s">>,
        <<"c","o","w","o","r","k","e","r">>,
        <<"j","o","b">>,
        <<"w","o","r","k","p","l","a","c","e">>,
        <<"r","e","s","i","g","n">>,
        <<"q","u","i","t">>,
        <<"s","a","c","k","e","d">> >>

detect_problem_type(text) ==
    LET rl == lower(text)
    IN  IF AnyIn(relationship_keywords, rl) THEN "relationship"
        ELSE IF AnyIn(job_keywords, rl) THEN "job"
        ELSE "other"

\* Mutation: the severe keywords are looked up in the text as typed.
detect_suicidal_language_as_typed(text) == AnyIn(risk_words[1].words, text)

detect_suicidal_language(text) == AnyIn(risk_words[1].words, lower(text))

\* ------------------------------------------------------------------------
\* parse_duration_days
\* ------------------------------------------------------------------------
\* The end of the longest run of \s (of \d) that starts at position i.
RECURSIVE SkipSpaces(_, _)
SkipSpaces(text, i) ==
    IF i <= Len(text) /\ IsSpace(text[i]) THEN SkipSpaces(text, i + 1) ELSE i

RECURSIVE SkipDigits(_, _)
SkipDigits(text, i) ==
    IF i <= Len(text) /\ IsDigit(text[i]) THEN SkipDigits(text, i + 1) ELSE i

\* int(text[i:j]) for a run of digits.
RECURSIVE IntOf(_, _, _)
IntOf(text, i, j) ==
    IF j <= i THEN 0 ELSE IntOf(text, i, j - 1) * 10 + DigitValue(text[j - 1])

\* The first alternative of a regular-expression group (a|b|...) that
\* matches at position i; 0 when none does.
RECURSIVE FirstAlternative(_, _, _, _)
FirstAlternative(text, i, alts, k) ==
    IF k > Len(alts) THEN 0
    ELSE IF StartsAt(text, i, alts[k]) THEN k
    ELSE FirstAlternative(text, i, alts, k + 1)

for_word == <<"f","o","r">>

\* (day|days|week|weeks|month|months|year|years)
numeric_units ==
    <<
        <<"d","a","y">>,
        <<"d","a","y","s">>,
        <<"w","e","e","k">>,
        <<"w","e","e","k","s">>,
        <<"m","o","n","t","h">>,
        <<"m","o","n","t","h","s">>,
        <<"y","e","a","r">>,
        <<"y","e","a","r","s">> >>

\* (one|two|three|four|five|six|seven|eight|nine|ten)
number_words ==
    <<
        <<"o","n","e">>,
        <<"t","w","o">>,
        <<"t","h","r","e","e">>,
        <<"f","o","u","r">>,
        <<"f","i","v","e">>,
        <<"s","i","x">>,
        <<"s","e","v","e","n">>,
        <<"e","i","g","h","t">>,
        <<"n","i","n","e">>,
        <<"t","e","n">> >>

\* (day|week|month|year)
word_units ==
    <<
        <<"d","a","y">>,
        <<"w","e","e","k">>,
        <<"m","o","n","t","h">>,
        <<"y","e","a","r">> >>

\* word_nums.get(w, 1)
word_nums(w) ==
    LET k == FirstAlternative(w, 1, number_words, 1)
    IN  IF k /= 0 /\ Len(number_words[k]) = Len(w) THEN k ELSE 1

\* r"for\s+(\d+)\s*(day|days|week|weeks|month|months|year|years)" matched
\* at position i: <<[n, unit]>> or <<>>.
NumericMatchAt(text, i) ==
    LET a == i + Len(for_word)
        b == SkipSpaces(text, a)
        c == SkipDigits(text, b)
        d == SkipSpaces(text, c)
        u == FirstAlternative(text, d, numeric_units, 1)
    IN  IF StartsAt(text, i, for_word) /\ b > a /\ c > b /\ u /= 0
        THEN << [n |-> IntOf(text, b, c), unit |-> numeric_units[u]] >>
        ELSE << >>

\* r"for\s+(one|...|ten)\s*(day|week|month|year)s?" matched at position i.
WordMatchAt(text, i) ==
    LET a == i + Len(for_word)
        b == SkipSpaces(text, a)
        w == FirstAlternative(text, b, number_words, 1)
        c == IF w = 0 THEN b ELSE b + Len(number_words[w])
        d == SkipSpaces(text, c)
        u == FirstAlternative(text, d, word_units, 1)
    IN  IF StartsAt(text, i, for_word) /\ b > a /\ w /= 0 /\ u /= 0
        THEN << [n |-> word_nums(number_words[w]), unit |-> word_units[u]] >>
        ELSE << >>

\* re.search: the match at the leftmost position that has one.
RECURSIVE SearchNumeric(_, _)
SearchNumeric(text, i) ==
    IF i > Len(text) THEN << >>
    ELSE IF NumericMatchAt(text, i) /= << >> THEN NumericMatchAt(text, i)
    ELSE SearchNumeric(text, i + 1)

RECURSIVE SearchWord(_, _)
SearchWord(text, i) ==
    IF i > Len(text) THEN << >>
    ELSE IF WordMatchAt(text, i) /= << >> THEN WordMatchAt(text, i)
    ELSE SearchWord(text, i + 1)

day_str == <<"d","a","y">>
week_str == <<"w","e","e","k">>
month_str == <<"m","o","n","t","h">>
year_str == <<"y","e","a","r">>
since_last_week == <<"s","i","n","c","e"," ","l","a","s","t"," ","w","e","e","k">>
since_last_month == <<"s","i","n","c","e"," ","l","a","s","t"," ","m","o","n","t","h">>
since_yesterday == <<"s","i","n","c","e"," ","y","e","s","t","e","r","d","a","y">>

\* The chain `if "day" in unit: return n ...`: <<days>>, or <<>> when no
\* branch returns.
UnitDays(m) ==
    IF Contains(day_str, m.unit) THEN << m.n >>
    ELSE IF Contains(week_str, m.unit) THEN << m.n * 7 >>
    ELSE IF Contains(month_str, m.unit) THEN << m.n * 30 >>
    ELSE IF Contains(year_str, m.unit) THEN << m.n * 365 >>
    ELSE << >>

\* Mutation: the spelled-out pattern is tried before the digit pattern.
parse_duration_days_word_first(text0) ==
    LET text == lower(text0)
        m == SearchNumeric(text, 1)
        m2 == SearchWord(text, 1)
    IN  IF m2 /= << >> /\ UnitDays(m2[1]) /= << >> THEN UnitDays(m2[1])
        ELSE IF m /= << >> /\ UnitDays(m[1]) /= << >> THEN UnitDays(m[1])
        ELSE IF Contains(since_last_week, text) THEN << 7 >>
        ELSE IF Contains(since_last_month, text) THEN << 30 >>
        ELSE IF Contains(since_yesterday, text) THEN << 1 >>
        ELSE << >>

\* parse_duration_days: <<days>> or <<>> (None).
parse_duration_days(text0) ==
    LET text == lower(text0)
        m == SearchNumeric(text, 1)
        m2 == SearchWord(text, 1)
    IN  IF m /= << >> /\ UnitDays(m[1]) /= << >> THEN UnitDays(m[1])
        ELSE IF m2 /= << >> /\ UnitDays(m2[1]) /= << >> THEN UnitDays(m2[1])
        ELSE IF Contains(since_last_week, text) THEN << 7 >>
        ELSE IF Contains(since_last_month, text) THEN << 30 >>
        ELSE IF Contains(since_yesterday, text) THEN << 1 >>
        ELSE << >>

\* ------------------------------------------------------------------------
\* The lexical functions on the explored texts
\* ------------------------------------------------------------------------
\* The four lexical functions are pure; their values on the explored texts
\* are tabulated once, and the operations below look them up.
KnownTexts == Texts \cup ParsedAnswers

Lexicon ==
    [ t \in KnownTexts |->
        [ risk |-> current_risk(t),
          problem_type |-> detect_problem_type(t),
          suicidal |-> detect_suicidal_language(t),
          days |-> parse_duration_days(t) ] ]

risk_of(text) == Lexicon[text].risk
problem_type_of(text) == Lexicon[text].problem_type
suicidal(text) == Lexicon[text].suicidal
duration_days_of(text) == Lexicon[text].days

\* Mutation: the duration must exceed two weeks.
MoreThanTwoWeeks(days) == days /= << >> /\ days[1] /= 0 /\ days[1] > 14

\* `days and days >= 14` for days = duration_days_of(...) [or None].
AtLeastTwoWeeks(days) == days /= << >> /\ days[1] /= 0 /\ days[1] >= 14

\* ------------------------------------------------------------------------
\* External collaborators: TextBlob and the Azure chat-completion client
\* ------------------------------------------------------------------------
\* TextBlob(text).sentiment: a pure function of the text, outside this
\* repository.  The model fixes one value (scaled by 100) per explored text.
TextBlobPolarity(text) ==
    CASE text = TextModerate -> -25
      [] text = TextJob -> -10
      [] text = TextRelationship -> 20
      [] OTHER -> 0

TextBlobSubjectivity(text) ==
    IF text = TextModerate THEN 100 ELSE 0

\* Outcomes of self.client.chat.completions.create(...): an exception, or
\* the content of the first choice.
GenFail == "<exception>"
GenReplyA == "That sounds really hard. What would help most right now?"
GenReplyPadded == "That sounds really hard. What would help most right now?\n"
GenReplies == {GenReplyA}
GenOutcomes == {GenFail} \cup GenReplies

\* str.strip() on the replies of the model.
strip(s) == IF s = GenReplyPadded THEN GenReplyA ELSE s

\* ------------------------------------------------------------------------
\* Fixed texts of the program
\* ------------------------------------------------------------------------
StubRelationship == "I'm so sorry that happened. You didn't deserve betrayal - your worth is not defined by their choices."
StubJob == "That's a painful betrayal at work - being treated unfairly or losing a job can shake your sense of safety."
StubGeneric == "I hear you. That sounds really hard. I can sit with you, suggest grounding exercises, or help with a short plan to get through the next few hours."
StubWrapUp == "Here's a short 4-step plan to move forward: 1) Ground & stabilize now 2) Short self-care (food/water/rest) 3) Journaling or assessment 4) Reach out / schedule follow-up."
StubAssessment == "It might help to do a brief screening like PHQ-9 (depression) or GAD-7 (anxiety). Would you like to try one now?"
StubDefault == "I'm here with you."
TemplateRelationship == "I'm so sorry. That was a betrayal, and you didn't deserve it. Right now, focus on one small thing: breathe slowly for the next 2 minutes."
TemplateJob == "That's a really unfair situation - workplaces can be brutal. Take a short break, write down what happened in one paragraph."
DisplayAlt == "I hear you. I'm here. If you want, we can try a grounding exercise or make a simple plan."
WrapMsg == "I summarized 4-5 concrete steps above. Try the first one now (grounding). If things are severe, please get immediate help."
CrisisHandled == "[crisis_handled]"
SystemPrompt == "You are a warm, empathetic AI companion. Be concise and supportive."
SystemPromptWrapUp == "You are a warm, empathetic AI companion. Be concise and supportive. Provide a sharp 4-5 step action plan tailored to the user's recent messages."

\* Lines written to the console with print().
CrisisQuestion == "You used language that suggests severe distress. Please tell me: how long have you felt this way?"
CrisisAssessmentAdvice == "Because this has lasted a while, I recommend taking a short assessment (PHQ-9 / GAD-7) and reaching out to a clinician."
CrisisLine == "If you feel you might act on these thoughts, contact emergency services or a crisis line immediately (988 in US)."
FocusedCrisisNotice == "You mentioned suicidal thoughts. I'm really sorry you're feeling so overwhelmed."
FocusedAssessmentAdvice == "Because this has been going on for a while, I strongly recommend a PHQ-9 / GAD-7 and immediate support."
FocusedCrisisLine == "If you are in immediate danger, please call emergency services or a crisis line now (988 in US)."
HumanEscalationHeader == "--- Human Escalation ---"
HumanEscalationDanger == "If you are in immediate danger, call your local emergency number now."
HumanEscalation988 == "If in the US, call 988 for suicide & crisis lifeline. Contact a trusted local clinician or nearest ER."
AssessmentMenu == "Would you like to try a brief screening: 1) PHQ-9 (depression), 2) GAD-7 (anxiety), or 'skip'?"
AssessmentLater == "Okay - we can do it later."
AssessmentSuggestion == "It might be helpful to try a short assessment (PHQ-9 or GAD-7). Would you like to now?"
AICallFailed == "[AI call failed]"
WrapThresholdNotice == "We've reached the session wrap-up threshold. I'll produce a short summary and next steps."

\* "[action_plan]"
ActionPlanUser == <<"[","a","c","t","i","o","n","_","p","l","a","n","]">>
NoRecentDetails == <<"N","o"," ","r","e","c","e","n","t"," ","d","e","t","a","i","l","s",".">>

Step1 == "1) Immediate grounding: 5 slow breaths (4in-4out), sip water, sit or lie down somewhere safe."
Step2 == "2) Body care in next hour: hydrate, eat a small snack, put on comfy clothes, rest if needed."
Step3Relationship == "3) Emotional processing: write a short letter (you don't need to send it) describing what happened and how it felt."
Step4Relationship == "4) Social support: message one trusted person 'I need a bit of support right now' and set a time to talk."
Step3Job == "3) Practical step: write down the facts (dates, people, what happened) - keep it for your records."
Step4Job == "4) Career step: if possible, update one line on your resume or LinkedIn, or look at 1 job posting to begin momentum."
Step3Other == "3) Processing: 10-minute free journaling about what you feel and one small positive moment today."
Step4Other == "4) Follow-up: schedule a 10-minute check-in with yourself or a friend tomorrow."
Step5 == "5) Mental health: consider taking PHQ-9/GAD-7 now and contacting a clinician. For immediate danger call emergency services / crisis line."

\* ------------------------------------------------------------------------
\* State
\* ------------------------------------------------------------------------
VARIABLES
    user_profile,           \* self.user_profile
    conversation_history,   \* self.conversation_history
    problem_phase_limit,    \* self.problem_phase_limit
    wrap_up_threshold,      \* self.wrap_up_threshold
    client,                 \* self.client is not None
    last_turn,              \* what the last POST /message did and returned
    turn_log,               \* history variable: one record per turn so far
    in_flight,              \* the requests being handled by worker threads
    submitted,              \* history variable: who submitted each turn
    _stop_checkins,         \* self._stop_checkins.is_set()
    _checkin_thread,        \* self._checkin_thread: None, or where it is
    run_pc                  \* where run() is in its command loop

vars == << user_profile, conversation_history, problem_phase_limit,
           wrap_up_threshold, client, last_turn, turn_log, in_flight,
           submitted, _stop_checkins, _checkin_thread, run_pc >>

\* The state of the check-in scheduler and of the command loop.
checkin_vars == << _stop_checkins, _checkin_thread, run_pc >>

\* CompanionBot(problem_phase_limit=4, wrap_up_threshold=35) in app.py
AppWrapUpThreshold == 35

\* self.user_profile after __init__ (the keys the turn pipeline uses;
\* last_assessment is the key run_phq9 and run_gad7 add).
InitialProfile ==
    [ problem_type |-> None,
      problem_collected |-> FALSE,
      problem_collected_texts |-> << >>,
      conversation_stage |-> "companion",
      message_count |-> 0,
      sentiment_history |-> << >>,
      risk_level |-> "low",
      last_assistant_reply |-> None,
      duration_flagged |-> FALSE,
      problem_phase_counter |-> 0,
      last_assessment |-> << >> ]

\* The observation of one turn: which branch of handle_user_input ran, the
\* console output, the records display() rendered, the generation requests,
\* the value of problem_phase_counter on entry to focused_companion_reply,
\* the action plan, the number of input() calls, the calls of
\* parse_duration_days with their results, and the value returned.
NoTurn ==
    [ branch |-> "none",
      text |-> << >>,
      printed |-> << >>,
      displayed |-> << >>,
      gen_requests |-> << >>,
      focused_start |-> << >>,
      plan |-> << >>,
      recent_summary |-> << >>,
      summarized |-> FALSE,
      inputs_read |-> 0,
      parsed |-> << >>,
      returned |-> << >> ]

\* The bot object as the methods below see it.
Self ==
    [ user_profile |-> user_profile,
      conversation_history |-> conversation_history,
      problem_phase_limit |-> problem_phase_limit,
      wrap_up_threshold |-> wrap_up_threshold,
      client |-> client,
      out |-> NoTurn ]

\* print(line)
emit(self, line) == [self EXCEPT !.out.printed = Append(@, line)]

\* self.parse_duration_days(text), with the call recorded in the observation.
parse_days(self, text) ==
    [self EXCEPT !.out.parsed =
        Append(@, [text |-> text, days |-> duration_days_of(text)])]

\* ------------------------------------------------------------------------
\* analyze_sentiment
\* ------------------------------------------------------------------------
\* The sentiment record built for a text.
Sentiment(text) ==
    [ polarity |-> TextBlobPolarity(text),
      subjectivity |-> TextBlobSubjectivity(text),
      risk_level |-> risk_of(text) ]

\* Mutation: the stored risk follows the latest text.
escalate_stored_risk_latest(stored, current) == current

\* Mutation: the stored risk is never raised.
escalate_stored_risk_never(stored, current) == stored

\* "escalate stored risk": the new value of user_profile["risk_level"].
escalate_stored_risk(stored, current) ==
    IF order(current) > (IF stored \in RiskLevels THEN order(stored) ELSE 0)
    THEN current
    ELSE stored

analyze_sentiment(self, text) ==
    [self EXCEPT
        !.user_profile.sentiment_history = Append(@, Sentiment(text)),
        !.user_profile.risk_level = escalate_stored_risk(@, risk_of(text))]

\* ------------------------------------------------------------------------
\* display
\* ------------------------------------------------------------------------
mood_emo(polarity) ==
    IF polarity > 10 THEN "positive"
    ELSE IF polarity > -10 THEN "neutral"
    ELSE "negative"

\* risk_map.get(level, green)
risk_map(level) ==
    CASE level = "low" -> "green" [] level = "moderate" -> "yellow"
      [] level = "high" -> "orange" [] level = "severe" -> "red"
      [] OTHER -> "green"

\* The text display() shows: the alternative when the text repeats the
\* last shown one.
display_text(last, text) ==
    IF last /= None /\ last /= "" /\ strip(last) = strip(text)
    THEN DisplayAlt
    ELSE text

display(self, text, stage, sentiment) ==
    LET shown == display_text(self.user_profile.last_assistant_reply, text)
        record == [ reply |-> shown,
                    mood |-> mood_emo(sentiment.polarity),
                    risk |-> risk_map(sentiment.risk_level),
                    stage |-> stage ]
    IN  [self EXCEPT
            !.out.displayed = Append(@, record),
            !.user_profile.last_assistant_reply = shown]

\* ------------------------------------------------------------------------
\* call_ai and _ai_stub
\* ------------------------------------------------------------------------
_ai_stub(self, role_hint) ==
    LET pt == IF self.user_profile.problem_type = None
              THEN "other" ELSE self.user_profile.problem_type
    IN  IF role_hint = "companion"
        THEN IF pt = "relationship" THEN StubRelationship
             ELSE IF pt = "job" THEN StubJob
             ELSE StubGeneric
        ELSE IF role_hint = "wrap_up" THEN StubWrapUp
        ELSE IF role_hint = "assessment_prompt" THEN StubAssessment
        ELSE StubDefault

\* seq[-n:]
LastN(seq, n) ==
    IF Len(seq) <= n THEN seq ELSE SubSeq(seq, Len(seq) - n + 1, Len(seq))

\* The two messages call_ai adds for each recent turn.
RECURSIVE TurnMessages(_)
TurnMessages(recent) ==
    IF recent = << >> THEN << >>
    ELSE << [role |-> "user", content |-> Head(recent).user],
            [role |-> "assistant", content |-> Head(recent).assistant] >>
         \o TurnMessages(Tail(recent))

\* The messages of a generation request.
request_messages(self, user_input, role_hint) ==
    << [role |-> "system",
        content |-> IF role_hint = "wrap_up" THEN SystemPromptWrapUp
                    ELSE SystemPrompt] >>
    \o TurnMessages(LastN(self.conversation_history, 6))
    \o << [role |-> "user", content |-> user_input] >>

\* Mutation: a failed request is sent a second time before falling back.
call_ai_retry(self, user_input, role_hint, gen) ==
    IF ~self.client
    THEN [self |-> self, reply |-> _ai_stub(self, role_hint)]
    ELSE LET asked == [self EXCEPT !.out.gen_requests =
                          Append(@, request_messages(self, user_input, role_hint))]
             again == [asked EXCEPT !.out.gen_requests =
                          Append(@, request_messages(self, user_input, role_hint))]
         IN  IF gen = GenFail
             THEN [self |-> emit(again, AICallFailed),
                   reply |-> _ai_stub(again, role_hint)]
             ELSE [self |-> asked, reply |-> gen]

\* call_ai: the bot after the call and the reply returned.  gen is the
\* outcome of the request, when one is made.
call_ai(self, user_input, role_hint, gen) ==
    IF ~self.client
    THEN [self |-> self, reply |-> _ai_stub(self, role_hint)]
    ELSE LET asked == [self EXCEPT !.out.gen_requests =
                          Append(@, request_messages(self, user_input, role_hint))]
         IN  IF gen = GenFail
             THEN [self |-> emit(asked, AICallFailed),
                   reply |-> _ai_stub(asked, role_hint)]
             ELSE [self |-> asked, reply |-> gen]

\* ------------------------------------------------------------------------
\* Escalation and assessments
\* ------------------------------------------------------------------------
escalate_to_human(self) ==
    emit(emit(emit(self, HumanEscalationHeader), HumanEscalationDanger),
         HumanEscalation988)

\* input(): one more line read from the console.
read_input(self) == [self EXCEPT !.out.inputs_read = @ + 1]

RECURSIVE SumFirst(_, _)
SumFirst(answers, n) ==
    IF n = 0 THEN 0 ELSE SumFirst(answers, n - 1) + answers[n]

\* The valid answers (0..3) finally given to the questions of a screening.
AnswerSheets == { [i \in 1..9 |-> 3] }

run_phq9(self, answers) ==
    LET score == SumFirst(answers, 9)
        s1 == [self EXCEPT
                 !.out.inputs_read = @ + 9,
                 !.user_profile.last_assessment =
                     << [type |-> "PHQ-9", score |-> score] >>]
    IN  IF score >= 20 THEN escalate_to_human(s1) ELSE s1

run_gad7(self, answers) ==
    LET score == SumFirst(answers, 7)
        s1 == [self EXCEPT
                 !.out.inputs_read = @ + 7,
                 !.user_profile.last_assessment =
                     << [type |-> "GAD-7", score |-> score] >>]
    IN  IF score >= 15 THEN escalate_to_human(s1) ELSE s1

AssessmentChoices == {"1", "2", "skip"}

prompt_assessment(self, env) ==
    LET s1 == read_input(emit(self, AssessmentMenu))
    IN  IF env.choice = "1" THEN run_phq9(s1, env.answers)
        ELSE IF env.choice = "2" THEN run_gad7(s1, env.answers)
        ELSE emit(s1, AssessmentLater)

\* ------------------------------------------------------------------------
\* Action plan and wrap-up
\* ------------------------------------------------------------------------
RECURSIVE JoinSpace(_)
JoinSpace(texts) ==
    IF texts = << >> THEN << >>
    ELSE IF Len(texts) = 1 THEN texts[1]
    ELSE texts[1] \o << " " >> \o JoinSpace(Tail(texts))

\* Mutation: the safety step is added for severe risk only.
action_plan_steps_severe_only(ptype, rl) ==
    << Step1, Step2 >>
    \o (IF ptype = "relationship" THEN << Step3Relationship, Step4Relationship >>
        ELSE IF ptype = "job" THEN << Step3Job, Step4Job >>
        ELSE << Step3Other, Step4Other >>)
    \o (IF rl = "severe" THEN << Step5 >> ELSE << >>)

\* The steps of the plan for a problem type and a stored risk level.
action_plan_steps(ptype, rl) ==
    << Step1, Step2 >>
    \o (IF ptype = "relationship" THEN << Step3Relationship, Step4Relationship >>
        ELSE IF ptype = "job" THEN << Step3Job, Step4Job >>
        ELSE << Step3Other, Step4Other >>)
    \o (IF rl \in {"high", "severe"} THEN << Step5 >> ELSE << >>)

\* Mutation: the reset forgets message_count.
wrap_reset_keeps_message_count(up) ==
    [up EXCEPT
        !.problem_collected = FALSE,
        !.problem_collected_texts = << >>,
        !.problem_phase_counter = 0,
        !.conversation_stage = "companion"]

\* Mutation: the reset also clears problem_type.
wrap_reset_clears_problem_type(up) ==
    [up EXCEPT
        !.problem_type = None,
        !.problem_collected = FALSE,
        !.problem_collected_texts = << >>,
        !.problem_phase_counter = 0,
        !.message_count = 0,
        !.conversation_stage = "companion"]

\* Mutation: the reset forgets problem_phase_counter.
wrap_reset_keeps_phase_counter(up) ==
    [up EXCEPT
        !.problem_collected = FALSE,
        !.problem_collected_texts = << >>,
        !.message_count = 0,
        !.conversation_stage = "companion"]

\* "Reset session for next check-in while preserving history"
wrap_reset(up) ==
    [up EXCEPT
        !.problem_collected = FALSE,
        !.problem_collected_texts = << >>,
        !.problem_phase_counter = 0,
        !.message_count = 0,
        !.conversation_stage = "companion"]

\* Mutation: the wrap-up entry replaces the last entry of the history.
create_action_plan_and_wrap_overwrites(self) ==
    LET ptype == self.user_profile.problem_type
        rl == self.user_profile.risk_level
        last6 == LastN(self.conversation_history, 6)
        recent == [i \in 1..Len(last6) |-> last6[i].user]
        recent_summary == IF recent /= << >> THEN JoinSpace(LastN(recent, 3))
                          ELSE NoRecentDetails
        s1 == [self EXCEPT
                 !.out.plan = << action_plan_steps(ptype, rl) >>,
                 !.out.recent_summary = recent_summary]
        s2 == [s1 EXCEPT !.conversation_history =
                 Append(SubSeq(@, 1, Len(@) - 1),
                        [ user |-> ActionPlanUser,
                          assistant |-> WrapMsg,
                          sentiment |-> << >>,
                          stage |-> "wrap_up" ])]
        s3 == display(s2, WrapMsg, "wrap_up",
                      [polarity |-> 0, risk_level |-> s2.user_profile.risk_level])
    IN  [s3 EXCEPT !.user_profile = wrap_reset(@)]

create_action_plan_and_wrap(self) ==
    LET ptype == self.user_profile.problem_type
        rl == self.user_profile.risk_level
        last6 == LastN(self.conversation_history, 6)
        recent == [i \in 1..Len(last6) |-> last6[i].user]
        recent_summary == IF recent /= << >> THEN JoinSpace(LastN(recent, 3))
                          ELSE NoRecentDetails
        s1 == [self EXCEPT
                 !.out.plan = << action_plan_steps(ptype, rl) >>,
                 !.out.recent_summary = recent_summary]
        s2 == [s1 EXCEPT !.conversation_history =
                 Append(@, [ user |-> ActionPlanUser,
                             assistant |-> WrapMsg,
                             sentiment |-> << >>,
                             stage |-> "wrap_up" ])]
        s3 == display(s2, WrapMsg, "wrap_up",
                      [polarity |-> 0, risk_level |-> s2.user_profile.risk_level])
    IN  [s3 EXCEPT !.user_profile = wrap_reset(@)]

summarize_and_wrap(self) ==
    [self EXCEPT
        !.out.summarized = TRUE,
        !.user_profile = wrap_reset(@)]

\* ------------------------------------------------------------------------
\* focused_companion_reply
\* ------------------------------------------------------------------------
\* Mutation: the limit must be exceeded, not reached.
phase_limit_exceeded(counter, limit) == counter > limit

\* problem_phase_counter >= problem_phase_limit, after the reply is shown
phase_limit_reached(counter, limit) == counter >= limit

\* The template of the branch taken without a client.
focused_template(self, ptype) ==
    IF ptype = "relationship" THEN TemplateRelationship
    ELSE IF ptype = "job" THEN TemplateJob
    ELSE _ai_stub(self, "companion")

focused_companion_reply(self, user_input, sentiment, env) ==
    LET s1 == [self EXCEPT
                 !.out.focused_start = << self.user_profile.problem_phase_counter >>,
                 !.user_profile.problem_phase_counter = @ + 1]
        ptype == s1.user_profile.problem_type
    IN  IF suicidal(user_input)
        THEN LET s2 == parse_days(read_input(emit(s1, FocusedCrisisNotice)), env.dur)
                 days == duration_days_of(env.dur)
                 s3 == IF AtLeastTwoWeeks(days)
                       THEN prompt_assessment(emit(s2, FocusedAssessmentAdvice), env)
                       ELSE s2
             IN  escalate_to_human(emit(s3, FocusedCrisisLine))
        ELSE LET r == IF s1.client
                      THEN call_ai(s1, user_input, "companion", env.gen)
                      ELSE [self |-> s1, reply |-> focused_template(s1, ptype)]
                 s2 == [r.self EXCEPT
                          !.conversation_history =
                              Append(@, [ user |-> user_input,
                                          assistant |-> r.reply,
                                          sentiment |-> << sentiment >>,
                                          stage |-> "companion" ]),
                          !.user_profile.message_count = @ + 1]
                 s3 == display(s2, r.reply, "companion", sentiment)
             IN  IF phase_limit_reached(s3.user_profile.problem_phase_counter,
                                        s3.problem_phase_limit)
                 THEN create_action_plan_and_wrap(s3)
                 ELSE s3

\* ------------------------------------------------------------------------
\* handle_user_input
\* ------------------------------------------------------------------------
\* Mutation: the focused replies stop one reply before the limit.
within_phase_limit_one_short(counter, limit) == counter + 1 < limit

\* problem_phase_counter < problem_phase_limit: continue focused replies
within_phase_limit(counter, limit) == counter < limit

\* Mutation: the crisis turn is counted as a message of the cycle.
crisis_flow_counts_message(self, user_input, sentiment, env) ==
    LET s1 == parse_days(read_input(emit(self, CrisisQuestion)), env.dur)
        days == duration_days_of(env.dur)
        s2 == IF AtLeastTwoWeeks(days)
              THEN prompt_assessment(emit(s1, CrisisAssessmentAdvice), env)
              ELSE s1
        s3 == escalate_to_human(emit(s2, CrisisLine))
    IN  [s3 EXCEPT
           !.out.branch = "crisis",
           !.user_profile.message_count = @ + 1,
           !.conversation_history =
               Append(@, [ user |-> user_input,
                           assistant |-> CrisisHandled,
                           sentiment |-> << sentiment >>,
                           stage |-> "crisis" ])]

\* The immediate crisis flow.
crisis_flow(self, user_input, sentiment, env) ==
    LET s1 == parse_days(read_input(emit(self, CrisisQuestion)), env.dur)
        days == duration_days_of(env.dur)
        s2 == IF AtLeastTwoWeeks(days)
              THEN prompt_assessment(emit(s1, CrisisAssessmentAdvice), env)
              ELSE s1
        s3 == escalate_to_human(emit(s2, CrisisLine))
    IN  [s3 EXCEPT
           !.out.branch = "crisis",
           !.conversation_history =
               Append(@, [ user |-> user_input,
                           assistant |-> CrisisHandled,
                           sentiment |-> << sentiment >>,
                           stage |-> "crisis" ])]

\* Mutation: the collecting turn starts the counter at 1.
collect_problem_from_one(self, user_input) ==
    [self EXCEPT
        !.out.branch = "collect",
        !.out.parsed =
            Append(@, [text |-> user_input, days |-> duration_days_of(user_input)]),
        !.user_profile.problem_type = problem_type_of(user_input),
        !.user_profile.problem_collected = TRUE,
        !.user_profile.problem_collected_texts = Append(@, user_input),
        !.user_profile.duration_flagged =
            IF AtLeastTwoWeeks(duration_days_of(user_input)) THEN TRUE ELSE @,
        !.user_profile.problem_phase_counter = 1]

\* Mutation: a problem type already set is kept by the next collection.
collect_problem_keeps_type(self, user_input) ==
    [self EXCEPT
        !.out.branch = "collect",
        !.out.parsed =
            Append(@, [text |-> user_input, days |-> duration_days_of(user_input)]),
        !.user_profile.problem_type =
            IF @ = None THEN problem_type_of(user_input) ELSE @,
        !.user_profile.problem_collected = TRUE,
        !.user_profile.problem_collected_texts = Append(@, user_input),
        !.user_profile.duration_flagged =
            IF AtLeastTwoWeeks(duration_days_of(user_input)) THEN TRUE ELSE @,
        !.user_profile.problem_phase_counter = 0]

\* "If problem not collected yet, collect & start problem-phase"
collect_problem(self, user_input) ==
    [self EXCEPT
        !.out.branch = "collect",
        !.out.parsed =
            Append(@, [text |-> user_input, days |-> duration_days_of(user_input)]),
        !.user_profile.problem_type = problem_type_of(user_input),
        !.user_profile.problem_collected = TRUE,
        !.user_profile.problem_collected_texts = Append(@, user_input),
        !.user_profile.duration_flagged =
            IF AtLeastTwoWeeks(duration_days_of(user_input)) THEN TRUE ELSE @,
        !.user_profile.problem_phase_counter = 0]

\* sum(1 for s in sentiment_history[-5:] if s["polarity"] < -0.15)
neg_count(history) ==
    LET recent == LastN(history, 5)
    IN  Cardinality({i \in 1..Len(recent) : recent[i].polarity < -15})

\* The default companion flow that follows the two problem-phase branches.
default_flow(self, user_input, sentiment, env) ==
    LET r == call_ai(self, user_input, "companion", env.gen)
        s1 == [r.self EXCEPT
                 !.out.branch = "default",
                 !.conversation_history =
                     Append(@, [ user |-> user_input,
                                 assistant |-> r.reply,
                                 sentiment |-> << sentiment >>,
                                 stage |-> "companion" ]),
                 !.user_profile.message_count = @ + 1]
        s2 == display(s1, r.reply, "companion", sentiment)
        s3 == IF neg_count(s2.user_profile.sentiment_history) >= 3
                 \/ s2.user_profile.duration_flagged
              THEN LET asked == read_input(emit(s2, AssessmentSuggestion))
                   IN  IF env.confirm \in {"yes", "y"}
                       THEN prompt_assessment(asked, env)
                       ELSE asked
              ELSE s2
    IN  IF s3.user_profile.message_count >= s3.wrap_up_threshold
        THEN summarize_and_wrap(emit(s3, WrapThresholdNotice))
        ELSE s3

\* Mutation: once a problem is collected, the default companion flow answers.
handle_user_input_default_flow(self, user_input, env) ==
    LET s0 == analyze_sentiment(self, user_input)
        sentiment == Sentiment(user_input)
    IN  IF suicidal(user_input)
        THEN crisis_flow(s0, user_input, sentiment, env)
        ELSE IF ~s0.user_profile.problem_collected
        THEN focused_companion_reply(collect_problem(s0, user_input),
                                     user_input, sentiment, env)
        ELSE default_flow(s0, user_input, sentiment, env)

handle_user_input(self, user_input, env) ==
    LET s0 == analyze_sentiment(self, user_input)
        sentiment == Sentiment(user_input)
    IN  IF suicidal(user_input)
        THEN crisis_flow(s0, user_input, sentiment, env)
        ELSE IF ~s0.user_profile.problem_collected
        THEN focused_companion_reply(collect_problem(s0, user_input),
                                     user_input, sentiment, env)
        ELSE IF s0.user_profile.problem_collected
        THEN IF within_phase_limit(s0.user_profile.problem_phase_counter,
                                   s0.problem_phase_limit)
             THEN focused_companion_reply([s0 EXCEPT !.out.branch = "focused"],
                                          user_input, sentiment, env)
             ELSE create_action_plan_and_wrap([s0 EXCEPT !.out.branch = "wrap_only"])
        ELSE default_flow(s0, user_input, sentiment, env)

\* run_once_text calls handle_user_input and has no return statement: the
\* call evaluates to None.
run_once_text(self, text, env) ==
    LET s == handle_user_input(self, text, env)
    IN  [s EXCEPT !.out.text = text, !.out.returned = << >>]

\* ------------------------------------------------------------------------
\* The service (app.py)
\* ------------------------------------------------------------------------
\* What the environment supplies during one turn on `text`: the answers
\* typed at the console, read only on a crisis turn, and the outcome of the
\* generation request, made only with a client on a non-crisis turn.
TurnInputs(text) ==
    IF suicidal(text)
    THEN [ dur : DurationAnswers, choice : AssessmentChoices,
           answers : AnswerSheets, gen : {GenFail}, confirm : {"no"} ]
    ELSE [ dur : {AnswerTwoWeeks}, choice : {"skip"},
           answers : AnswerSheets,
           gen : IF client THEN GenOutcomes ELSE {GenFail},
           confirm : {"no"} ]

\* What a turn reads from its environment when no assessment is taken and
\* the generation request, if one is made, fails.
NoInputs ==
    [ dur |-> AnswerTwoWeeks, choice |-> "skip",
      answers |-> [i \in 1..9 |-> 3], gen |-> GenFail, confirm |-> "no" ]

\* send_message is a plain `def` endpoint: the framework runs each request on
\* a thread of its pool, all of them calling the one module-level bot.  The
\* model follows two such requests.
Requests == {1, 2}

\* A request not yet picked up by a thread.
IdleRequest ==
    [ pc |-> "idle", text |-> << >>, gen |-> GenFail, ptype |-> None,
      out |-> NoTurn ]

Init ==
    /\ user_profile = InitialProfile
    /\ conversation_history = << >>
    /\ problem_phase_limit \in 1..MaxLimit
    /\ wrap_up_threshold = AppWrapUpThreshold
    /\ client \in BOOLEAN
    /\ last_turn = NoTurn
    /\ turn_log = << >>
    /\ in_flight = [i \in Requests |-> IdleRequest]
    /\ submitted = << >>
    /\ _stop_checkins = FALSE
    /\ _checkin_thread = None
    /\ run_pc = "prompt"

\* The bot after the call, and the turn's observation.
commit(s, text) ==
    /\ user_profile' = s.user_profile
    /\ conversation_history' = s.conversation_history
    /\ last_turn' = s.out
    /\ turn_log' = Append(turn_log,
                          [ text |-> text,
                            branch |-> s.out.branch,
                            wrapped |-> s.out.plan /= << >> ])
    /\ UNCHANGED << problem_phase_limit, wrap_up_threshold, client >>
    /\ UNCHANGED checkin_vars

\* POST /message: bot_response = bot.run_once_text(msg.text); return it.
send_message ==
    /\ Len(user_profile.sentiment_history) < MaxTurns
    /\ UNCHANGED << in_flight, submitted >>
    /\ \E text \in Texts :
         \E env \in TurnInputs(text) :
            commit(run_once_text(Self, text, env), text)

Next == send_message

Spec == Init /\ [][Next]_vars

\* The service with a generator that may return any content: an ordinary
\* reply, the text display() uses as its alternative, or the empty content.
AnyReplies == GenReplies \cup {DisplayAlt, ""}

RepliedTexts == {TextRelationship, TextCrisis}

TurnInputsAnyReply ==
    [ dur : {AnswerTwoWeeks}, choice : {"skip"}, answers : AnswerSheets,
      gen : IF client THEN {GenFail} \cup AnyReplies ELSE {GenFail},
      confirm : {"no"} ]

send_message_any_reply ==
    /\ Len(user_profile.sentiment_history) < MaxTurns
    /\ UNCHANGED << in_flight, submitted >>
    /\ \E text \in RepliedTexts :
         \E env \in TurnInputsAnyReply :
            commit(run_once_text(Self, text, env), text)

SpecAnyReply == Init /\ [][send_message_any_reply]_vars

\* The service on crisis turns, with the wider set of answers to the "how
\* long" question.
TurnInputsAnyAnswer ==
    [ dur : ParsedAnswers, choice : {"1", "skip"}, answers : AnswerSheets,
      gen : {GenFail}, confirm : {"no"} ]

send_message_any_answer ==
    /\ Len(user_profile.sentiment_history) < MaxTurns
    /\ UNCHANGED << in_flight, submitted >>
    /\ \E env \in TurnInputsAnyAnswer :
          commit(run_once_text(Self, TextCrisis, env), TextCrisis)

SpecAnyAnswer == Init /\ [][send_message_any_answer]_vars

\* The bot constructed with any wrap_up_threshold: one that every
\* message_count has reached, one reached with the first counted message,
\* and the value app.py passes.
Thresholds == {0, 1, AppWrapUpThreshold}

InitAnyThreshold ==
    /\ user_profile = InitialProfile
    /\ conversation_history = << >>
    /\ problem_phase_limit \in 1..MaxLimit
    /\ wrap_up_threshold \in Thresholds
    /\ client \in BOOLEAN
    /\ last_turn = NoTurn
    /\ turn_log = << >>
    /\ in_flight = [i \in Requests |-> IdleRequest]
    /\ submitted = << >>
    /\ _stop_checkins = FALSE
    /\ _checkin_thread = None
    /\ run_pc = "prompt"

\* What a turn reads when no assessment is taken; the generator, when there
\* is one, answers or fails.
PlainInputs ==
    { [NoInputs EXCEPT !.gen = g] :
        g \in IF client THEN GenOutcomes ELSE {GenFail} }

send_message_any_threshold ==
    /\ Len(user_profile.sentiment_history) < MaxTurns
    /\ UNCHANGED << in_flight, submitted >>
    /\ \E text \in Texts :
         \E env \in PlainInputs :
            commit(run_once_text(Self, text, env), text)

SpecAnyThreshold == InitAnyThreshold /\ [][send_message_any_threshold]_vars

\* ------------------------------------------------------------------------
\* Two conversations
\* ------------------------------------------------------------------------
\* A request carries its text only (UserMessage), and every request is
\* served by the one module-level bot.  The model lets two conversations
\* submit turns and records who submitted which.
Conversations == {"A", "B"}

ConversationTexts == {TextRelationship, TextJob, TextCrisis}

\* What a turn of a conversation reads: no assessment is taken, and the
\* generator, when there is one, answers.
SharedInputs == [NoInputs EXCEPT !.gen = IF client THEN GenReplyA ELSE GenFail]

send_message_from(c) ==
    /\ Len(user_profile.sentiment_history) < MaxTurns
    /\ \E text \in ConversationTexts :
          /\ commit(run_once_text(Self, text, SharedInputs), text)
          /\ submitted' = Append(submitted, [conversation |-> c, text |-> text])
    /\ UNCHANGED in_flight

NextShared == \E c \in Conversations : send_message_from(c)

SpecShared == Init /\ [][NextShared]_vars

\* ------------------------------------------------------------------------
\* Two requests handled at the same time
\* ------------------------------------------------------------------------
\* A thread runs handle_user_input on the shared bot without any lock, and
\* the interpreter may switch threads between any two of its steps.  The
\* model follows one switch point per turn: after the analysis, the problem
\* collection and the increment of problem_phase_counter, before the reply
\* is obtained and stored (where call_ai waits for the generator) or, when
\* the problem phase is exhausted, before the action plan is made.
ConcurrentTexts == {TextRelationship, TextJob, TextModerate}

\* handle_user_input up to the switch point.
handle_user_input_begin(self, user_input) ==
    LET s0 == analyze_sentiment(self, user_input)
        exhausted == /\ s0.user_profile.problem_collected
                     /\ ~within_phase_limit(s0.user_profile.problem_phase_counter,
                                            s0.problem_phase_limit)
        s1 == IF ~s0.user_profile.problem_collected
              THEN collect_problem(s0, user_input)
              ELSE [s0 EXCEPT !.out.branch = "focused"]
        s2 == [s1 EXCEPT
                 !.out.focused_start = << s1.user_profile.problem_phase_counter >>,
                 !.user_profile.problem_phase_counter = @ + 1]
    IN  IF exhausted THEN [s0 EXCEPT !.out.branch = "wrap_only"]
        ELSE IF ~s2.client THEN s2
        ELSE [s2 EXCEPT !.out.gen_requests =
                 Append(@, request_messages(s2, user_input, "companion"))]

\* The reply of the focused turn: the template chosen by the problem type
\* read at the start of focused_companion_reply, the generated content, or
\* the stub when the request failed.
focused_reply(self, ptype, gen) ==
    IF ~self.client
    THEN [self |-> self, reply |-> focused_template(self, ptype)]
    ELSE IF gen = GenFail
    THEN [self |-> emit(self, AICallFailed), reply |-> _ai_stub(self, "companion")]
    ELSE [self |-> self, reply |-> gen]

\* handle_user_input from the switch point on.
handle_user_input_finish(self, user_input, sentiment, ptype, gen) ==
    LET r == focused_reply(self, ptype, gen)
        s2 == [r.self EXCEPT
                 !.conversation_history =
                     Append(@, [ user |-> user_input,
                                 assistant |-> r.reply,
                                 sentiment |-> << sentiment >>,
                                 stage |-> "companion" ]),
                 !.user_profile.message_count = @ + 1]
        s3 == display(s2, r.reply, "companion", sentiment)
        s4 == IF self.out.branch = "wrap_only"
              THEN create_action_plan_and_wrap(self)
              ELSE IF phase_limit_reached(s3.user_profile.problem_phase_counter,
                                          s3.problem_phase_limit)
              THEN create_action_plan_and_wrap(s3)
              ELSE s3
    IN  [s4 EXCEPT !.out.text = user_input, !.out.returned = << >>]

\* The bot and the request at the switch point.
switch(s, i, text) ==
    /\ user_profile' = s.user_profile
    /\ in_flight' = [in_flight EXCEPT ![i] =
          [ pc |-> "running", text |-> text, gen |-> GenFail,
            ptype |-> s.user_profile.problem_type, out |-> s.out ]]
    /\ UNCHANGED << conversation_history, last_turn, turn_log,
                    problem_phase_limit, wrap_up_threshold, client, submitted >>
    /\ UNCHANGED checkin_vars

\* A thread picks up request i and runs it to the switch point.
request_begin(i) ==
    /\ in_flight[i].pc = "idle"
    /\ \E text \in ConcurrentTexts :
          switch(handle_user_input_begin(Self, text), i, text)

\* The thread of request i runs the turn to its end; gen is the outcome of
\* the generation request, when one was made.
request_finish(i) ==
    /\ in_flight[i].pc = "running"
    /\ UNCHANGED submitted
    /\ \E gen \in (IF in_flight[i].out.gen_requests /= << >>
                    THEN GenOutcomes ELSE {GenFail}) :
          /\ commit(handle_user_input_finish([Self EXCEPT !.out = in_flight[i].out],
                                             in_flight[i].text,
                                             Sentiment(in_flight[i].text),
                                             in_flight[i].ptype, gen),
                    in_flight[i].text)
          /\ in_flight' = [in_flight EXCEPT ![i].pc = "done", ![i].gen = gen]

NextConcurrent == \E i \in Requests : request_begin(i) \/ request_finish(i)

SpecConcurrent == Init /\ [][NextConcurrent]_vars

\* ------------------------------------------------------------------------
\* The console program (run) and the check-in scheduler
\* ------------------------------------------------------------------------
\* run() reads commands and typed messages at its prompt; /checkin_start and
\* /checkin_stop call start_checkins and stop_checkins.  The check-in
\* thread runs _checkin_loop at the same time.  _shutdown_event is set by
\* shutdown() only, after the command loop has ended, so that within the
\* loop it is clear.  The bot has no microphone (its initialisation
\* failed), so that toggle_listen_enter_flow only prints a notice.
session_vars ==
    << user_profile, conversation_history, problem_phase_limit,
       wrap_up_threshold, client, last_turn, turn_log, in_flight, submitted >>

\* self._checkin_thread and self._checkin_thread.is_alive()
is_alive(thread) == thread \notin {None, "dead"}

\* cmd = input(...): one of the two scheduler commands is read.
run_read_command ==
    /\ run_pc = "prompt"
    /\ run_pc' \in {"/checkin_start", "/checkin_stop"}
    /\ UNCHANGED << session_vars, _stop_checkins, _checkin_thread >>

\* A typed message: self.handle_user_input(cmd).
run_typed_message ==
    /\ run_pc = "prompt"
    /\ Len(user_profile.sentiment_history) < MaxTurns
    /\ UNCHANGED << in_flight, submitted >>
    /\ \E text \in RepliedTexts :
         \E env \in PlainInputs :
            LET s == handle_user_input(Self, text, env)
            IN  commit([s EXCEPT !.out.text = text], text)

start_checkins ==
    /\ run_pc = "/checkin_start"
    /\ run_pc' = "prompt"
    /\ IF is_alive(_checkin_thread)
       THEN UNCHANGED << _stop_checkins, _checkin_thread >>
       ELSE /\ _stop_checkins' = FALSE
            /\ _checkin_thread' = "while"
    /\ UNCHANGED session_vars

\* self._stop_checkins.set(), up to the join.
stop_checkins ==
    /\ run_pc = "/checkin_stop"
    /\ _stop_checkins' = TRUE
    /\ run_pc' = IF _checkin_thread /= None THEN "join" ELSE "prompt"
    /\ UNCHANGED << session_vars, _checkin_thread >>

\* self._checkin_thread.join(timeout=1) returns: the thread has ended, or
\* the second has passed while the thread is blocked in input().
stop_checkins_join ==
    /\ run_pc = "join"
    /\ _checkin_thread \in {"dead", "input"}
    /\ run_pc' = "prompt"
    /\ UNCHANGED << session_vars, _stop_checkins, _checkin_thread >>

\* One step of the check-in thread: the loop test, the wait on the stop
\* flag (which returns at once when the flag is set, and after the interval
\* otherwise), and input() followed by toggle_listen_enter_flow.
_checkin_loop ==
    /\ is_alive(_checkin_thread)
    /\ _checkin_thread' =
          CASE _checkin_thread = "while" ->
                  IF _stop_checkins THEN "dead" ELSE "wait"
            [] _checkin_thread = "wait" ->
                  IF _stop_checkins THEN "dead" ELSE "input"
            [] _checkin_thread = "input" -> "while"
    /\ UNCHANGED << session_vars, _stop_checkins, run_pc >>

NextRun ==
    \/ run_read_command
    \/ run_typed_message
    \/ start_checkins
    \/ stop_checkins
    \/ stop_checkins_join
    \/ _checkin_loop

SpecRun == Init /\ [][NextRun]_vars

\* ------------------------------------------------------------------------
\* Properties
\* ------------------------------------------------------------------------
TurnDone == last_turn.branch /= "none"
Wrapped == last_turn.plan /= << >>
LastEntry == conversation_history[Len(conversation_history)]

\* A text that contains a severe-tier keyword (case-insensitive).
HasSevereKeyword(text) ==
    \E k \in 1..Len(risk_words[1].words) :
        Contains(risk_words[1].words[k], lower(text))

SevereTexts == {t \in Texts : HasSevereKeyword(t)}

\* C1: whatever the session state, a turn on a text that contains a
\* severe-tier keyword is recorded in conversation_history with
\* stage=crisis and leaves risk_level = severe.
C1_SevereTextIsCrisis ==
    (TurnDone /\ last_turn.text \in SevereTexts) =>
        /\ conversation_history /= << >>
        /\ LastEntry.user = last_turn.text
        /\ LastEntry.stage = "crisis"
        /\ user_profile.risk_level = "severe"

\* A crisis turn taken while a problem was being discussed, one reply short
\* of the limit.
C1_Witness ==
    /\ last_turn.branch = "crisis"
    /\ last_turn.text = TextCrisis
    /\ user_profile.problem_collected
    /\ user_profile.problem_phase_counter = problem_phase_limit - 1
    /\ LastEntry.stage = "crisis"
    /\ user_profile.risk_level = "severe"

MaxRisk(a, b) == IF order(a) >= order(b) THEN a ELSE b

\* C2: over every turn, risk_level does not decrease in the order
\* low < moderate < high < severe: after the turn it is the maximum of its
\* previous value and the tier of the turn's text.
C2_RiskNeverDecreases ==
    [][ /\ order(user_profile'.risk_level) >= order(user_profile.risk_level)
        /\ user_profile'.risk_level =
              MaxRisk(user_profile.risk_level, risk_of(last_turn'.text)) ]_vars

\* A wrap-up turn on a text of the lowest tier, with severe stored.
C2_Witness ==
    /\ Wrapped
    /\ risk_of(last_turn.text) = "low"
    /\ user_profile.risk_level = "severe"
    /\ \E k \in 1..Len(turn_log) : turn_log[k].branch = "crisis"

\* The number of non-crisis turns among turns 1..k that follow the last
\* wrap-up made before turn k.
RECURSIVE NonCrisisInCycle(_, _)
NonCrisisInCycle(log, k) ==
    IF k = 0 THEN 0
    ELSE (IF log[k].text \in SevereTexts THEN 0 ELSE 1)
         + (IF k = 1 \/ log[k - 1].wrapped THEN 0 ELSE NonCrisisInCycle(log, k - 1))

\* C3: with problem_phase_limit = N >= 1, wrap-up is performed during the
\* N-th non-crisis turn of every cycle (the first cycle starts with the
\* session, each later one after a wrap-up) and during no other turn,
\* however many crisis turns are interleaved.
C3_WrapUpAtNthTurn ==
    \A k \in 1..Len(turn_log) :
        turn_log[k].wrapped <=>
            /\ turn_log[k].text \notin SevereTexts
            /\ NonCrisisInCycle(turn_log, k) = problem_phase_limit

\* A second cycle that wraps up, with a crisis turn inside a cycle.
C3_Witness ==
    /\ problem_phase_limit >= 2
    /\ Len(turn_log) >= 3
    /\ turn_log[Len(turn_log)].wrapped
    /\ \E k \in 2..(Len(turn_log) - 1) :
          /\ turn_log[k].text \in SevereTexts
          /\ ~turn_log[k - 1].wrapped
          /\ turn_log[k - 1].text \notin SevereTexts

\* C4: immediately after every wrap-up, phase_counter = 0,
\* problem_collected = false and message_count = 0.
C4_CountersResetAtWrapUp ==
    Wrapped =>
        /\ user_profile.problem_phase_counter = 0
        /\ user_profile.problem_collected = FALSE
        /\ user_profile.message_count = 0

\* A wrap-up that ends a cycle of at least two focused replies.
C4_Witness ==
    /\ Wrapped
    /\ last_turn.focused_start /= << >>
    /\ last_turn.focused_start[1] >= 1
    /\ LastEntry.stage = "wrap_up"
    /\ user_profile.problem_phase_counter = 0

\* The text of the collecting turn of the cycle that turn k belongs to: the
\* first non-crisis text after the last wrap-up made before turn k.
RECURSIVE CycleFirstText(_, _)
CycleFirstText(log, k) ==
    IF k = 1 \/ log[k - 1].wrapped THEN log[k].text
    ELSE IF \E j \in 1..(k - 1) :
               /\ log[j].text \notin SevereTexts
               /\ \A i \in j..(k - 1) : ~log[i].wrapped
         THEN CycleFirstText(log, k - 1)
         ELSE log[k].text

C6_FocusedReplyWithinLimit ==
    last_turn.focused_start /= << >> =>
        /\ last_turn.focused_start[1] <= problem_phase_limit
        /\ last_turn.focused_start[1] + 1 >= problem_phase_limit => Wrapped
        /\ user_profile.problem_phase_counter < problem_phase_limit

\* The focused reply that reaches a limit of at least 2.
C6_Witness ==
    /\ problem_phase_limit >= 2
    /\ last_turn.branch = "focused"
    /\ last_turn.focused_start = << problem_phase_limit - 1 >>
    /\ Wrapped

\* The maximum risk tier over the records of a sentiment history.
RECURSIVE MaxTier(_)
MaxTier(history) ==
    IF history = << >> THEN "low"
    ELSE MaxRisk(MaxTier(Tail(history)), Head(history).risk_level)

\* C7: in every reachable state risk_level is the maximum risk tier over
\* all records of sentiment_history (low when it is empty).
C7_RiskIsMaxOfHistory ==
    user_profile.risk_level = MaxTier(user_profile.sentiment_history)

\* The latest record is lower than an earlier one.
C7_Witness ==
    /\ Len(user_profile.sentiment_history) >= 2
    /\ user_profile.sentiment_history[Len(user_profile.sentiment_history)].risk_level
          = "moderate"
    /\ user_profile.risk_level = "high"

\* What a crisis turn leaves alone, apart from user_profile["last_assessment"].
CrisisFrame ==
    /\ user_profile'.problem_phase_counter = user_profile.problem_phase_counter
    /\ user_profile'.message_count = user_profile.message_count
    /\ user_profile'.problem_collected = user_profile.problem_collected
    /\ user_profile'.problem_type = user_profile.problem_type
    /\ user_profile'.last_assistant_reply = user_profile.last_assistant_reply
    /\ last_turn'.gen_requests = << >>
    /\ last_turn'.displayed = << >>
    /\ last_turn'.plan = << >>
    /\ user_profile'.sentiment_history =
          Append(user_profile.sentiment_history, Sentiment(last_turn'.text))
    /\ user_profile'.risk_level = "severe"
    /\ conversation_history' =
          Append(conversation_history,
                 [ user |-> last_turn'.text,
                   assistant |-> conversation_history'[Len(conversation_history')].assistant,
                   sentiment |-> << Sentiment(last_turn'.text) >>,
                   stage |-> "crisis" ])

\* C8 as stated: a crisis turn changes sentiment_history, risk_level and
\* conversation_history (one crisis entry) and nothing else.
C8_CrisisTurnChangesOnlyThree ==
    [][ last_turn'.text \in SevereTexts =>
          /\ CrisisFrame
          /\ [user_profile' EXCEPT
                 !.sentiment_history = user_profile.sentiment_history,
                 !.risk_level = user_profile.risk_level] = user_profile ]_vars

\* C8 as amended: a crisis turn changes nothing of the problem cycle, calls
\* no generator and performs no wrap-up; it changes sentiment_history,
\* risk_level, conversation_history (one crisis entry) and, when the
\* offered assessment is taken, last_assessment, and nothing else.
C8_CrisisTurnFrame ==
    [][ last_turn'.text \in SevereTexts =>
          /\ CrisisFrame
          /\ [user_profile' EXCEPT
                 !.sentiment_history = user_profile.sentiment_history,
                 !.risk_level = user_profile.risk_level,
                 !.last_assessment = user_profile.last_assessment] = user_profile
          /\ user_profile'.last_assessment /= user_profile.last_assessment =>
                /\ AssessmentMenu \in {last_turn'.printed[i] :
                                          i \in 1..Len(last_turn'.printed)}
                /\ user_profile'.last_assessment /= << >> ]_vars

\* A crisis turn one reply short of the limit, after a reply was shown.
C8_Witness ==
    /\ last_turn.branch = "crisis"
    /\ problem_phase_limit >= 2
    /\ user_profile.problem_collected
    /\ user_profile.problem_phase_counter = problem_phase_limit - 1
    /\ user_profile.last_assistant_reply /= None
    /\ user_profile.last_assessment /= << >>

Moods == {"positive", "neutral", "negative"}
RiskIndicators == {"green", "yellow", "orange", "red"}
Stages == {"companion", "crisis", "wrap_up"}

\* C9: for every text and session state the turn returns a well-formed
\* ReplyRecord carrying reply, mood, risk and stage.
C9_TurnReturnsReplyRecord ==
    TurnDone =>
        /\ Len(last_turn.returned) = 1
        /\ {"reply", "mood", "risk", "stage"} \subseteq DOMAIN last_turn.returned[1]
        /\ last_turn.returned[1].mood \in Moods
        /\ last_turn.returned[1].risk \in RiskIndicators
        /\ last_turn.returned[1].stage \in Stages

\* The emergency-contact guidance of the program.
EmergencyGuidance ==
    {CrisisLine, FocusedCrisisLine, HumanEscalationDanger, HumanEscalation988}

\* C10: on every crisis turn the assistant text recorded in
\* conversation_history, which is the turn's reply, is the fixed
\* crisis-support message with the emergency-contact guidance, and the risk
\* indicator is severe.
C10_CrisisReplyIsGuidance ==
    last_turn.branch = "crisis" =>
        /\ LastEntry.stage = "crisis"
        /\ LastEntry.assistant \in EmergencyGuidance
        /\ Len(last_turn.returned) = 1
        /\ last_turn.returned[1].reply = LastEntry.assistant
        /\ last_turn.returned[1].risk = "red"

\* A turn that produced a focused reply, and the history entry stored for it.
FocusedReplied == last_turn.focused_start /= << >> /\ last_turn.displayed /= << >>
TurnEntry ==
    IF Wrapped THEN conversation_history[Len(conversation_history) - 1]
    ELSE LastEntry

\* The generation request of the turn raised an exception.
GenerationFailed ==
    \E i \in 1..Len(last_turn.printed) : last_turn.printed[i] = AICallFailed

\* The reply of a turn without a generator.
AbsentTemplate(ptype) ==
    CASE ptype = "relationship" -> TemplateRelationship
      [] ptype = "job" -> TemplateJob
      [] OTHER -> StubGeneric

\* The reply of a turn whose generation request failed.
FailedTemplate(ptype) ==
    CASE ptype = "relationship" -> StubRelationship
      [] ptype = "job" -> StubJob
      [] OTHER -> StubGeneric

\* C11 as stated: on a focused turn without a generator or with a failed
\* generation request, the reply is one fixed template per problem_type
\* (three templates), and the generator is attempted at most once.
C11_FallbackOneTemplatePerType ==
    (FocusedReplied /\ (~client \/ GenerationFailed)) =>
        /\ TurnEntry.assistant = AbsentTemplate(user_profile.problem_type)
        /\ Len(last_turn.gen_requests) <= 1

\* The update every focused reply makes, whatever the generator did: one
\* companion entry, message_count and phase_counter one higher, or both 0
\* and one wrap-up entry more when the limit is reached.
FocusedUpdate ==
    LET entry == conversation_history'[Len(conversation_history) + 1]
        start == IF user_profile.problem_collected
                 THEN user_profile.problem_phase_counter ELSE 0
    IN  /\ Len(conversation_history') =
              Len(conversation_history) + (IF last_turn'.plan /= << >> THEN 2 ELSE 1)
        /\ SubSeq(conversation_history', 1, Len(conversation_history))
              = conversation_history
        /\ entry.user = last_turn'.text
        /\ entry.stage = "companion"
        /\ entry.sentiment = << Sentiment(last_turn'.text) >>
        /\ last_turn'.plan /= << >> <=> start + 1 >= problem_phase_limit
        /\ user_profile'.problem_phase_counter =
              IF last_turn'.plan /= << >> THEN 0 ELSE start + 1
        /\ user_profile'.message_count =
              IF last_turn'.plan /= << >> THEN 0 ELSE user_profile.message_count + 1

\* C11 as amended: a focused turn without a generator, or whose generation
\* request fails, completes with a fixed template chosen by problem_type and
\* by which of the two happened (the templates of the focused reply when the
\* generator is absent, those of the stub when the request failed; the
\* template for other is the same in both); at most one request is made,
\* and phase_counter, message_count and conversation_history are updated as
\* on a successful call.
C11_FallbackTemplateByTypeAndCause ==
    [][ (last_turn'.focused_start /= << >> /\ last_turn'.displayed /= << >>) =>
          /\ FocusedUpdate
          /\ Len(last_turn'.gen_requests) = (IF client THEN 1 ELSE 0)
          /\ ~client =>
                conversation_history'[Len(conversation_history) + 1].assistant
                   = AbsentTemplate(user_profile'.problem_type)
          /\ (client /\ AICallFailed \in {last_turn'.printed[i] :
                                              i \in 1..Len(last_turn'.printed)}) =>
                conversation_history'[Len(conversation_history) + 1].assistant
                   = FailedTemplate(user_profile'.problem_type) ]_vars

\* A failed request on a relationship problem, answered by the stub.
C11_Witness ==
    /\ FocusedReplied
    /\ client
    /\ GenerationFailed
    /\ Len(last_turn.gen_requests) = 1
    /\ user_profile.problem_type = "relationship"
    /\ TurnEntry.assistant = StubRelationship
    /\ TurnEntry.assistant /= AbsentTemplate("relationship")

\* The text handed to display() for the reply rendered last: the assistant
\* text of the last entry that is not a crisis entry (None when there is
\* none).
RECURSIVE LastChosen(_)
LastChosen(history) ==
    IF history = << >> THEN None
    ELSE IF history[Len(history)].stage /= "crisis"
         THEN history[Len(history)].assistant
         ELSE LastChosen(SubSeq(history, 1, Len(history) - 1))

\* C12: for any two consecutive rendered replies whose chosen reply text is
\* identical (whatever it is, the generic acknowledgement and the empty text
\* included), the two rendered reply values differ.
C12_ConsecutiveRepliesDiffer ==
    [][ \A i \in 1..Len(last_turn'.displayed) :
          LET n == Len(conversation_history)
              chosen == conversation_history'[n + i].assistant
              prevChosen == IF i = 1 THEN LastChosen(conversation_history)
                            ELSE conversation_history'[n + i - 1].assistant
              prevShown == IF i = 1 THEN user_profile.last_assistant_reply
                           ELSE last_turn'.displayed[i - 1].reply
          IN  (prevShown /= None /\ prevChosen = chosen) =>
                 last_turn'.displayed[i].reply /= prevShown ]_vars

\* C13: on a non-crisis turn processed while no problem is collected, with
\* problem_phase_limit > 1, afterwards problem_type is the classification
\* of the turn's text, problem_collected is true, phase_counter is 1 and
\* the one history entry appended for the turn has stage=companion;
\* "my girlfriend cheated on me" gives relationship.
C13_CollectingTurn ==
    [][ ( /\ last_turn'.text \notin SevereTexts
          /\ ~user_profile.problem_collected
          /\ problem_phase_limit > 1 ) =>
          /\ user_profile'.problem_type = detect_problem_type(last_turn'.text)
          /\ last_turn'.text = TextRelationship =>
                user_profile'.problem_type = "relationship"
          /\ user_profile'.problem_collected = TRUE
          /\ user_profile'.problem_phase_counter = 1
          /\ Len(conversation_history') = Len(conversation_history) + 1
          /\ conversation_history'[Len(conversation_history')].stage = "companion"
          /\ conversation_history'[Len(conversation_history')].user = last_turn'.text ]_vars

\* The collecting turn of a later cycle, after a cycle about a job problem.
C13_Witness ==
    /\ problem_phase_limit > 1
    /\ last_turn.branch = "collect"
    /\ last_turn.text = TextRelationship
    /\ Len(turn_log) >= 2
    /\ turn_log[Len(turn_log) - 1].wrapped
    /\ turn_log[Len(turn_log) - 1].text = TextJob
    /\ user_profile.problem_type = "relationship"
    /\ user_profile.problem_collected
    /\ user_profile.problem_phase_counter = 1
    /\ LastEntry.stage = "companion"

\* A message of tier high or severe has been seen in the session.
HighRiskSeen ==
    \E k \in 1..Len(turn_log) : risk_of(turn_log[k].text) \in {"high", "severe"}

\* C14: every wrap-up action plan has exactly 5 steps when risk_level is
\* high or severe at wrap-up time and exactly 4 otherwise, steps 3 and 4
\* being those of problem_type; once a high or severe message has been
\* seen, every later wrap-up contains the extra safety step.
C14_PlanSteps ==
    Wrapped =>
        LET plan == last_turn.plan[1]
            risky == user_profile.risk_level \in {"high", "severe"}
            ptype == user_profile.problem_type
        IN  /\ Len(plan) = (IF risky THEN 5 ELSE 4)
            /\ plan[1] = Step1
            /\ plan[2] = Step2
            /\ << plan[3], plan[4] >> =
                  (CASE ptype = "relationship" -> << Step3Relationship, Step4Relationship >>
                     [] ptype = "job" -> << Step3Job, Step4Job >>
                     [] OTHER -> << Step3Other, Step4Other >>)
            /\ risky => plan[5] = Step5
            /\ HighRiskSeen => (Len(plan) = 5 /\ plan[5] = Step5)

\* A wrap-up on a text of tier low, in a session that saw a crisis text
\* earlier: the plan of a relationship problem with the safety step.
C14_Witness ==
    /\ Wrapped
    /\ risk_of(last_turn.text) = "low"
    /\ HighRiskSeen
    /\ user_profile.problem_type = "relationship"
    /\ Len(last_turn.plan[1]) = 5
    /\ last_turn.plan[1][3] = Step3Relationship
    /\ last_turn.plan[1][5] = Step5

\* C15: conversation_history and sentiment_history are append-only: every
\* turn keeps the existing entries as they are, appends exactly one
\* sentiment record, appends exactly one history entry for a crisis or a
\* focused turn, and exactly one more when it wraps up.
C15_HistoriesAppendOnly ==
    [][ LET n == Len(conversation_history)
            replied == last_turn'.branch \in {"crisis", "collect", "focused"}
            wrapped == last_turn'.plan /= << >>
        IN  /\ user_profile'.sentiment_history =
                  Append(user_profile.sentiment_history, Sentiment(last_turn'.text))
            /\ Len(conversation_history') =
                  n + (IF replied THEN 1 ELSE 0) + (IF wrapped THEN 1 ELSE 0)
            /\ SubSeq(conversation_history', 1, n) = conversation_history
            /\ replied =>
                  /\ conversation_history'[n + 1].user = last_turn'.text
                  /\ conversation_history'[n + 1].stage \in {"crisis", "companion"}
            /\ wrapped =>
                  conversation_history'[Len(conversation_history')].stage = "wrap_up" ]_vars

\* A wrap-up after a companion entry and a crisis entry: four entries for
\* three turns.
C15_Witness ==
    /\ Wrapped
    /\ Len(user_profile.sentiment_history) = 3
    /\ Len(conversation_history) = 4
    /\ conversation_history[1].stage = "companion"
    /\ conversation_history[2].stage = "crisis"
    /\ conversation_history[3].stage = "companion"
    /\ conversation_history[4].stage = "wrap_up"

\* The tiers one of whose keywords occurs in the text, case-insensitively.
MatchingTiers(text) ==
    { risk_words[k].level : k \in { j \in 1..Len(risk_words) :
                                      AnyIn(risk_words[j].words, lower(text)) } }

\* The highest of the matching tiers; low when no keyword matches.
HighestMatchingTier(text) ==
    IF MatchingTiers(text) = {} THEN "low"
    ELSE CHOOSE l \in MatchingTiers(text) :
            \A m \in MatchingTiers(text) : order(l) >= order(m)

ExpectedTier == [ t \in Texts |-> HighestMatchingTier(t) ]

\* C16: the risk tier computed for a text is the highest-priority tier
\* (severe > high > moderate > low) whose keyword set has a
\* case-insensitive substring match in the text, and low when no keyword
\* matches; a text matching several tiers gets the highest one.
C16_TierIsHighestMatch ==
    /\ Len(turn_log) = Len(user_profile.sentiment_history)
    /\ \A k \in 1..Len(turn_log) :
          user_profile.sentiment_history[k].risk_level = ExpectedTier[turn_log[k].text]

\* A text with keywords of two tiers, one with a capitalised keyword and
\* one without any keyword have been analysed.
C16_Witness ==
    /\ Len(turn_log) = 3
    /\ turn_log[1].text = TextJob
    /\ MatchingTiers(TextJob) = {"high", "moderate"}
    /\ user_profile.sentiment_history[1].risk_level = "high"
    /\ turn_log[2].text = TextModerate
    /\ user_profile.sentiment_history[2].risk_level = "moderate"
    /\ turn_log[3].text = TextRelationship
    /\ MatchingTiers(TextRelationship) = {}
    /\ user_profile.sentiment_history[3].risk_level = "low"

\* The days the rules give for the explored texts: N times the days of the
\* unit for the first "for <N> <unit>" in digits, else for the first one
\* spelled out, else the value of a "since ..." phrase, else none.
ExpectedDays(text) ==
    CASE text = AnswerForTwoWeeks -> << 14 >>
      [] text = AnswerForThreeMonths -> << 90 >>
      [] text = AnswerSinceLastMonth -> << 30 >>
      [] text = AnswerSinceLastWeek -> << 7 >>
      [] text = AnswerSinceYesterday -> << 1 >>
      [] text = AnswerWordThenDigits -> << 21 >>
      [] text = AnswerTwoDigitForms -> << 365 >>
      [] text = AnswerWordAndSince -> << 3650 >>
      [] text = TextModerate -> << 14 >>
      [] OTHER -> << >>

\* C17: parse_duration_days returns N x {day 1, week 7, month 30,
\* year 365} for the first "for <N> <unit>" match, a digit-form match
\* anywhere in the text being preferred over a spelled-out one; otherwise
\* 7, 30 or 1 for "since last week", "since last month", "since
\* yesterday"; otherwise none.
C17_DurationDays ==
    \A i \in 1..Len(last_turn.parsed) :
        last_turn.parsed[i].days = ExpectedDays(last_turn.parsed[i].text)

\* A text whose spelled-out duration comes before its digit duration was
\* parsed.
C17_Witness ==
    /\ Len(last_turn.parsed) = 1
    /\ last_turn.parsed[1].text = AnswerWordThenDigits
    /\ last_turn.parsed[1].days = << 21 >>
    /\ user_profile.last_assessment /= << >>

\* The polarity display() is given for a rendered record: 0.0 for the
\* wrap-up message, the polarity of the turn's text otherwise.
ShownPolarity(record) ==
    IF record.stage = "wrap_up" THEN 0 ELSE TextBlobPolarity(last_turn.text)

\* C18: the rendered mood indicator is positive when polarity > 0.1,
\* negative when polarity < -0.1, and neutral otherwise, the boundary
\* values 0.1 and -0.1 included (polarity scaled by 100).
C18_MoodByPolarity ==
    \A i \in 1..Len(last_turn.displayed) :
        last_turn.displayed[i].mood =
            (IF ShownPolarity(last_turn.displayed[i]) > 10 THEN "positive"
             ELSE IF ShownPolarity(last_turn.displayed[i]) < -10 THEN "negative"
             ELSE "neutral")

\* The bot after the turns of requests i and then j, one after the other,
\* on a fresh bot, the generator answering each as it did.
SerialOutcome(i, j) ==
    LET fresh == [ user_profile |-> InitialProfile,
                   conversation_history |-> << >>,
                   problem_phase_limit |-> problem_phase_limit,
                   wrap_up_threshold |-> wrap_up_threshold,
                   client |-> client,
                   out |-> NoTurn ]
        a == run_once_text(fresh, in_flight[i].text,
                           [NoInputs EXCEPT !.gen = in_flight[i].gen])
        b == run_once_text([a EXCEPT !.out = NoTurn], in_flight[j].text,
                           [NoInputs EXCEPT !.gen = in_flight[j].gen])
    IN  [ user_profile |-> b.user_profile,
          conversation_history |-> b.conversation_history ]

\* C19: when two requests are handled concurrently, the resulting session
\* state and history equal those of some sequential order of the two turns.
C19_ConcurrentTurnsSerializable ==
    (\A i \in Requests : in_flight[i].pc = "done") =>
        [ user_profile |-> user_profile,
          conversation_history |-> conversation_history ]
            \in { SerialOutcome(1, 2), SerialOutcome(2, 1) }

\* The texts conversation c has submitted, in order.
RECURSIVE TextsOf(_, _)
TextsOf(log, c) ==
    IF log = << >> THEN << >>
    ELSE (IF Head(log).conversation = c THEN << Head(log).text >> ELSE << >>)
         \o TextsOf(Tail(log), c)

\* The bot after the given turns, one after the other, on the bot `self`.
RECURSIVE Replay(_, _)
Replay(self, texts) ==
    IF texts = << >> THEN self
    ELSE Replay(run_once_text([self EXCEPT !.out = NoTurn], Head(texts), SharedInputs),
                Tail(texts))

\* The bot a conversation would have after its own turns alone.
Alone(c) ==
    Replay([ user_profile |-> InitialProfile,
             conversation_history |-> << >>,
             problem_phase_limit |-> problem_phase_limit,
             wrap_up_threshold |-> wrap_up_threshold,
             client |-> client,
             out |-> NoTurn ],
           TextsOf(submitted, c))

\* C20: the outcome of a turn of one conversation (problem_type used,
\* phase_counter, risk_level, whether wrap-up fires, the replies rendered,
\* repeat suppression included) is the same whatever turns another
\* conversation has submitted: it is the outcome the conversation's own
\* turns give alone.
C20_ConversationsIsolated ==
    submitted /= << >> =>
        LET alone == Alone(submitted[Len(submitted)].conversation)
        IN  /\ user_profile.problem_type = alone.user_profile.problem_type
            /\ user_profile.problem_phase_counter =
                  alone.user_profile.problem_phase_counter
            /\ user_profile.risk_level = alone.user_profile.risk_level
            /\ last_turn.plan = alone.out.plan
            /\ last_turn.displayed = alone.out.displayed

\* The lines printed during the last turn.
Printed == { last_turn.printed[i] : i \in 1..Len(last_turn.printed) }

\* C21: on a crisis turn the self-assessment is offered exactly when the
\* duration answer parses to a day count >= 14; an answer without parsable
\* duration is treated as absent, no assessment is offered, and the crisis
\* turn still completes with its crisis history entry appended.
C21_AssessmentOfferedFromTwoWeeks ==
    last_turn.branch = "crisis" =>
        LET days == ExpectedDays(last_turn.parsed[1].text)
        IN  /\ Len(last_turn.parsed) = 1
            /\ AssessmentMenu \in Printed <=> (days /= << >> /\ days[1] >= 14)
            /\ days = << >> =>
                  /\ AssessmentMenu \notin Printed
                  /\ last_turn.inputs_read = 1
            /\ LastEntry.stage = "crisis"
            /\ LastEntry.user = last_turn.text
            /\ Len(conversation_history) = Len(turn_log)

\* A crisis turn answered without a parsable duration, the third turn of a
\* session in which an assessment was taken earlier.
C21_Witness ==
    /\ last_turn.branch = "crisis"
    /\ last_turn.parsed[1].text = AnswerFeelOkay
    /\ AssessmentMenu \notin Printed
    /\ LastEntry.stage = "crisis"
    /\ Len(conversation_history) = 3
    /\ user_profile.last_assessment /= << >>

\* C22: a duration answer in the form of the crisis prompt's own example,
\* "2 weeks" without the word "for", is understood as 14 days, so that the
\* user who gives it is offered the assessment.
C22_PromptExampleUnderstood ==
    (last_turn.branch = "crisis" /\ last_turn.parsed[1].text = AnswerTwoWeeks) =>
        /\ last_turn.parsed[1].days = << 14 >>
        /\ AssessmentMenu \in Printed

ProblemTypes == {"relationship", "job", "other"}

\* The request r, issued on the text `text` with the history `history`, is
\* the system message, the last min(6, length) entries of the history in
\* order (the user text and the assistant text of each), and the text.
RequestWindow(r, history, text) ==
    LET n == Len(history)
        w == IF n < 6 THEN n ELSE 6
    IN  /\ Len(r) = 2 * w + 2
        /\ r[1].role = "system"
        /\ \A j \in 1..w :
              /\ r[2 * j] = [role |-> "user", content |-> history[n - w + j].user]
              /\ r[2 * j + 1] =
                    [role |-> "assistant", content |-> history[n - w + j].assistant]
        /\ r[Len(r)] = [role |-> "user", content |-> text]

\* The requests of a turn have the history window and the text.
RequestsHaveWindow ==
    [][ \A i \in 1..Len(last_turn'.gen_requests) :
          RequestWindow(last_turn'.gen_requests[i], conversation_history,
                        last_turn'.text) ]_vars

\* C23: every generation request issued on a focused turn carries the
\* current problem_type (with another problem type the request would be
\* another one) and a history window that is exactly the last
\* min(6, length) entries of conversation_history, in order, followed by
\* the current user text.
C23_RequestCarriesTypeAndWindow ==
    [][ \A i \in 1..Len(last_turn'.gen_requests) :
          /\ RequestWindow(last_turn'.gen_requests[i], conversation_history,
                           last_turn'.text)
          /\ \A p \in ProblemTypes \ {user_profile'.problem_type} :
                request_messages([Self EXCEPT !.user_profile.problem_type = p],
                                 last_turn'.text, "companion")
                   /= last_turn'.gen_requests[i] ]_vars

\* The positions of the wrap_up entries of the history.
WrapUpEntries ==
    { i \in 1..Len(conversation_history) :
        conversation_history[i].stage = "wrap_up" }

\* C24: with turns processed one after the other, wrap-up follows the final
\* focused reply within the same turn and never replaces it: every wrap_up
\* entry of conversation_history is immediately preceded by a companion
\* entry, a turn that wraps up has appended exactly its own companion entry
\* and then the wrap_up entry, and no turn takes the wrap-only branch.
C24_WrapUpFollowsFocusedReply ==
    /\ \A i \in WrapUpEntries :
          /\ i > 1
          /\ conversation_history[i - 1].stage = "companion"
    /\ last_turn.branch /= "wrap_only"
    /\ Wrapped =>
          /\ last_turn.branch \in {"collect", "focused"}
          /\ last_turn.displayed /= << >>
          /\ Len(conversation_history) >= 2
          /\ LastEntry.stage = "wrap_up"
          /\ conversation_history[Len(conversation_history) - 1].user
                = last_turn.text
          /\ conversation_history[Len(conversation_history) - 1].stage
                = "companion"
          /\ Len(last_turn.displayed) = 2
          /\ last_turn.displayed[1].stage = "companion"
          /\ last_turn.displayed[2].stage = "wrap_up"
    /\ (TurnDone /\ ~Wrapped) => LastEntry.stage /= "wrap_up"

\* The second wrap-up of a session, made by a turn that continued the
\* focused replies of a problem collected earlier.
C24_Witness ==
    /\ Wrapped
    /\ last_turn.branch = "focused"
    /\ Cardinality(WrapUpEntries) = 2
    /\ LastEntry.stage = "wrap_up"
    /\ conversation_history[Len(conversation_history) - 1].stage = "companion"
    /\ conversation_history[Len(conversation_history) - 1].user = last_turn.text

\* Two runs of a turn end with the same session state and have produced
\* the same output.
SameOutcome(a, b) ==
    /\ a.user_profile = b.user_profile
    /\ a.conversation_history = b.conversation_history
    /\ a.out = b.out

C26_CountersBetweenTurns ==
    IF user_profile.problem_collected
    THEN /\ 1 <= user_profile.problem_phase_counter
         /\ user_profile.problem_phase_counter = user_profile.message_count
         /\ user_profile.message_count < problem_phase_limit
    ELSE /\ user_profile.problem_phase_counter = 0
         /\ user_profile.message_count = 0

\* A crisis turn taken after two focused replies on a collected problem,
\* and, earlier in the session, a wrap-up.
C26_Witness ==
    /\ last_turn.branch = "crisis"
    /\ user_profile.problem_collected
    /\ user_profile.problem_phase_counter = 2
    /\ user_profile.message_count = 2
    /\ problem_phase_limit = 3

\* The positions of the history entries created for a user turn: those
\* that store the turn's sentiment record.
UserTurnEntries ==
    { i \in 1..Len(conversation_history) :
        conversation_history[i].sentiment /= << >> }

\* C27: the crisis decision and the recorded risk tier agree: an entry of
\* conversation_history created for a user turn has stage=crisis if and
\* only if the sentiment record stored with it has risk tier severe, and
\* every other such entry is a companion entry of a lower tier.
C27_CrisisStageIffSevereTier ==
    /\ \A i \in UserTurnEntries :
          LET e == conversation_history[i]
          IN  /\ e.stage \in {"crisis", "companion"}
              /\ e.stage = "crisis" <=> e.sentiment[1].risk_level = "severe"
              /\ e.sentiment[1].risk_level = risk_of(e.user)
    /\ \A i \in 1..Len(conversation_history) :
          conversation_history[i].stage \in {"crisis", "companion"}
              => i \in UserTurnEntries
    /\ Cardinality(UserTurnEntries) = Len(turn_log)

\* A companion entry of tier high recorded after a crisis entry, while the
\* stored risk level is severe.
C27_Witness ==
    /\ user_profile.risk_level = "severe"
    /\ \E i \in UserTurnEntries : \E j \in UserTurnEntries :
          /\ i < j
          /\ conversation_history[i].stage = "crisis"
          /\ conversation_history[i].sentiment[1].risk_level = "severe"
          /\ conversation_history[j].stage = "companion"
          /\ conversation_history[j].sentiment[1].risk_level = "high"

\* Check-ins are active: a check-in thread is alive and the stop flag is
\* clear.
CheckinsActive == is_alive(_checkin_thread) /\ ~_stop_checkins

\* C28: whenever start_checkins returns, check-ins are active, in every
\* interleaving with the check-in thread, including a start_checkins called
\* after stop_checkins while the previous thread is still waiting for input.
C28_StartLeavesCheckinsActive ==
    [][ (run_pc = "/checkin_start" /\ run_pc' = "prompt") => CheckinsActive' ]_vars
====
